---- MODULE Spec2Model ----
(***************************************************************************)
(* A model of src/src/utils/dataset.py: the action codec                   *)
(* (convert_action_gym_to_models / convert_action_models_to_gym), the      *)
(* mask extraction (extract_observation_features) and the bounded          *)
(* five-deque dataset (AbstractDataset: append, recompute_weights,         *)
(* __len__, __getitem__).                                                  *)
(*                                                                         *)
(* Python indices are 0-based; TLA+ sequences are 1-based.  A row          *)
(* action[i, k] of the code is action[i+1][k+1] here.  Pixel coordinates   *)
(* keep the code's 0-based numbering because images are modelled as        *)
(* functions over 0..H-1 \X 0..W-1.                                        *)
(***************************************************************************)
EXTENDS Integers, Sequences, FiniteSets, TLC

VARIABLES
    \* AbstractDataset fields (dataset.py 177-181, 207)
    observation, state, action, curvature, masks, instance_weights,
    \* the last call made on the dataset and what it returned / raised
    last,
    \* history: every sample committed by append, in arrival order; whether
    \* every append that completed so far had equal series lengths; number of
    \* append calls made
    pushed, wellFormedOnly, nAppends,
    \* action codec: the chain of conversions applied and the values seen
    ops, hist,
    \* mask extraction: the input frame and the returned mask tensor
    image, features

dsVars == <<observation, state, action, curvature, masks, instance_weights,
            last, pushed, wellFormedOnly, nAppends>>
codecVars == <<ops, hist>>
maskVars == <<image, features>>
vars == <<dsVars, codecVars, maskVars>>

----------------------------------------------------------------------------
(* Bounds of the model *)

\* largest magnitude of a steering / throttle / brake / acceleration value
MaxVal == 1
\* largest number of rows in a batch handed to the codec
MaxBatch == 2
\* number of conversions applied one after the other to a batch
MaxChain == 3

\* Exceptions the code raises
AssertionError == "AssertionError"
ValueError == "ValueError"
IndexError == "IndexError"
AttributeError == "AttributeError"
Errors == {AssertionError, ValueError, IndexError, AttributeError}

\* What a call does: it raises e, or it returns v
Raised(e) == [status |-> e, value |-> <<>>]
Returned(v) == [status |-> "ok", value |-> v]

----------------------------------------------------------------------------
(* Action codec: dataset.py 17-52 *)

Vals == (0 - MaxVal)..MaxVal
SteerVals == {0 - MaxVal, MaxVal}
GymRows == SteerVals \X Vals \X Vals   \* (steer, throttle, brake)
ModelRows == SteerVals \X Vals         \* (steer, acceleration)

RECURSIVE Batches(_, _)
Batches(Rows, n) ==
    IF n = 0 THEN {<<>>}
    ELSE LET shorter == Batches(Rows, n - 1)
         IN  shorter \cup {Append(b, r) : b \in {s \in shorter : Len(s) = n - 1}, r \in Rows}

\* mutant: the precondition tests throttle >= 0 and brake > 0
convert_action_gym_to_models_ge(a) ==
    IF \E i \in 1..Len(a) : a[i][2] >= 0 /\ a[i][3] > 0
    THEN Raised(AssertionError)
    ELSE Returned([i \in 1..Len(a) |-> <<a[i][1], a[i][2] - a[i][3]>>])

\* dataset.py 27-33: assert not np.any((action[:,1] > 0) & (action[:,2] > 0));
\* converted[:,0] = steering, converted[:,1] = throttle - brake
convert_action_gym_to_models(a) ==
    IF \E i \in 1..Len(a) : a[i][2] > 0 /\ a[i][3] > 0
    THEN Raised(AssertionError)
    ELSE Returned([i \in 1..Len(a) |-> <<a[i][1], a[i][2] - a[i][3]>>])

\* mutant: the brake channel receives the acceleration without its sign flipped
convert_action_models_to_gym_nosign(o) ==
    [i \in 1..Len(o) |->
        <<o[i][1],
          IF o[i][2] >= 0 THEN o[i][2] ELSE 0,
          IF o[i][2] < 0 THEN o[i][2] ELSE 0>>]

\* dataset.py 48-52: controls = zeros; controls[:,0] = steering;
\* controls[:,1] = accel where accel >= 0; controls[:,2] = -accel where accel < 0
convert_action_models_to_gym(o) ==
    [i \in 1..Len(o) |->
        <<o[i][1],
          IF o[i][2] >= 0 THEN o[i][2] ELSE 0,
          IF o[i][2] < 0 THEN 0 - o[i][2] ELSE 0>>]

----------------------------------------------------------------------------
(* Mask extraction: dataset.py 55-77 *)

\* size of an input frame (rows, columns); the environment renders 96 x 96
FrameH == 96
FrameW == 96
\* side of the coloured block a generated input frame carries
PatchSize == 2

\* dataset.py 68-74
x_min == 45
x_max == 52
y_min == 65
y_max == 80
CropRows == 84
Gray == 105
ChevronThreshold == 150
RoadTolerance == 15

\* Pixel colours (R, G, B) used to build input frames: black, the neutral
\* gray, marker red, grass green, white, a red-ish gray (marker and road at
\* once), and the two colours just outside the thresholds.
Colours == { <<0, 0, 0>>, <<105, 105, 105>>, <<255, 0, 0>>, <<102, 229, 102>>,
             <<255, 255, 255>>, <<151, 105, 59>>, <<150, 105, 105>> }

\* top-left corners of the coloured block
Anchors == { <<0, 0>>, <<y_min - 1, x_min - 1>>, <<y_min, x_min>>, <<y_min + 3, x_min + 2>>,
             <<y_max - 1, x_max - 1>>, <<y_max, x_max>>,
             <<CropRows - 1, FrameW - PatchSize>>, <<FrameH - PatchSize, 10>> }

FrameSpecs == [bg : Colours, fg : Colours, at : Anchors]

\* The H x W x 3 frame a descriptor stands for: colour fg in the block whose
\* top-left corner is at, colour bg elsewhere.
Frame(d) ==
    [p \in (0..(FrameH - 1)) \X (0..(FrameW - 1)) |->
        IF /\ d.at[1] <= p[1] /\ p[1] < d.at[1] + PatchSize
           /\ d.at[2] <= p[2] /\ p[2] < d.at[2] + PatchSize
        THEN d.fg ELSE d.bg]

Min(a, b) == IF a < b THEN a ELSE b
Abs(a) == IF a < 0 THEN 0 - a ELSE a

\* dataset.py 70: image[:, :84, :, :]
Crop(img) ==
    [p \in (0..(Min(CropRows, FrameH) - 1)) \X (0..(FrameW - 1)) |-> img[p]]

\* mutant: the HUD block is left as it is in the frame
Blank_skipped(img) == img

\* dataset.py 72: image[:, y_min:y_max, x_min:x_max] = [105, 105, 105]
Blank(img) ==
    [p \in DOMAIN img |->
        IF y_min <= p[1] /\ p[1] < y_max /\ x_min <= p[2] /\ p[2] < x_max
        THEN <<Gray, Gray, Gray>> ELSE img[p]]

\* dataset.py 73: chevrons = image[:, :, :, 0] > 150
Chevron(px) == px[1] > ChevronThreshold

\* dataset.py 74: road = np.abs(image.mean(axis=3) - 105) < 15; the mean of the
\* three channels is s/3, and |s/3 - 105| < 15 iff |s - 3*105| < 3*15
Road(px) == Abs(px[1] + px[2] + px[3] - 3 * Gray) < 3 * RoadTolerance

\* dataset.py 65-77: one frame gets a batch axis (66-67); the result is
\* indexed [n][channel, row, col] with channel 0 = chevrons, 1 = road
\* (np.stack(..., axis=3) then transpose (0, 3, 1, 2)).
extract_observation_features(img) ==
    LET blanked == Blank(Crop(img))
        rows == {p[1] : p \in DOMAIN blanked}
        cols == {p[2] : p \in DOMAIN blanked}
    IN  << [q \in {0, 1} \X rows \X cols |->
              IF q[1] = 0 THEN Chevron(blanked[<<q[2], q[3]>>])
                          ELSE Road(blanked[<<q[2], q[3]>>])] >>

----------------------------------------------------------------------------
(* Bounded dataset: dataset.py 141-229 *)

\* conf.IMITATION_MAX_MEMORY, the maxlen of the five deques
Capacity == 3
\* largest number of timesteps in one series of a record
MaxLen == 5
\* number of append calls made on one dataset, with records of any shape
MaxAppends == 1
\* number of append calls made on one dataset, with records whose series
\* have equal lengths
MaxEqualAppends == 2

\* the seven series append takes (dataset.py 183)
Telemetry == {"speed", "wheels_omegas", "angular_velocity", "steering_joint_angle"}
Fields == {"obs", "action", "curvature"} \cup Telemetry

\* An input record: the number of timesteps of each series, and the position
\* (1-based, 0 for none) of an action row with throttle > 0 and brake > 0.
\* The records drawn are those in which at most one series has a length of
\* its own, one timestep more or less than the others, and in which the
\* throttle-and-brake row, if any, is the first.
Records ==
    { r \in { [len |-> [f \in Fields |-> IF f = dev THEN m ELSE n], both |-> b] :
                <<n, m, b>> \in { t \in (0..MaxLen) \X (0..MaxLen) \X {0, 1} :
                                      t[2] \in {t[1] - 1, t[1], t[1] + 1} },
                dev \in Fields } :
        r.both <= r.len["action"] }

EqualLengths(rec) == \A f, g \in Fields : rec.len[f] = rec.len[g]

\* the records whose seven series have the same number of timesteps
EqualRecords == { r \in Records : EqualLengths(r) }

\* the record's action_history: throttle rows, and the throttle-and-brake row
ActionHistory(rec) ==
    [i \in 1..rec.len["action"] |-> IF i = rec.both THEN <<0, 1, 1>> ELSE <<0, 1, 0>>]

HasBoth(rec) == rec.both \in 1..rec.len["action"]
Malformed(rec) == ~EqualLengths(rec) \/ HasBoth(rec)

\* The n per-timestep values derived from series k of record number r: each
\* is named by the record and the (0-based) timestep it was derived from.
Derived(r, n) == [i \in 1..n |-> <<r, i - 1>>]

\* dataset.py 110-136: every telemetry series is reshaped to one row per
\* timestep and the rows are concatenated along the last axis, which numpy
\* refuses (ValueError) unless all have the same number of rows
preprocess_input_testing(r, rec) ==
    IF \E f, g \in Telemetry : rec.len[f] # rec.len[g]
    THEN Raised(ValueError)
    ELSE Returned([obs |-> Derived(r, rec.len["obs"]),
                   state |-> Derived(r, rec.len["speed"])])

\* dataset.py 154-170: curvature, masks (one per frame), obs and state, action
preprocess_input_training(r, rec) ==
    LET cur == Derived(r, rec.len["curvature"])
        msk == Derived(r, rec.len["obs"])
        tst == preprocess_input_testing(r, rec)
        act == convert_action_gym_to_models(ActionHistory(rec))
    IN  IF tst.status # "ok" THEN Raised(tst.status)
        ELSE IF act.status # "ok" THEN Raised(act.status)
        ELSE Returned([obs |-> tst.value.obs, state |-> tst.value.state,
                       curvature |-> cur, masks |-> msk,
                       action |-> Derived(r, Len(act.value))])

\* mutant: a full buffer refuses the new element and keeps the oldest
DequeAppend_keep_oldest(d, x) ==
    IF Len(d) < Capacity THEN Append(d, x) ELSE d

\* collections.deque(maxlen = Capacity).append: a full deque drops its
\* leftmost element; with maxlen 0 the element is discarded
DequeAppend(d, x) ==
    IF Capacity = 0 THEN d
    ELSE IF Len(d) < Capacity THEN Append(d, x)
    ELSE Append(Tail(d), x)

\* deque += list (dataset.py 197-203): the elements are appended in order
RECURSIVE DequeExtend(_, _)
DequeExtend(d, xs) ==
    IF xs = <<>> THEN d ELSE DequeExtend(DequeAppend(d, Head(xs)), Tail(xs))

\* mutant: the masks buffer is created without maxlen and never evicts
Commit_masks_unbounded(d, p) ==
    [observation |-> DequeExtend(d.observation, p.obs),
     state |-> DequeExtend(d.state, p.state),
     curvature |-> DequeExtend(d.curvature, p.curvature),
     masks |-> d.masks \o p.masks,
     action |-> DequeExtend(d.action, p.action)]

\* dataset.py 195-203: the five deques are extended one after the other
Commit(d, p) ==
    [observation |-> DequeExtend(d.observation, p.obs),
     state |-> DequeExtend(d.state, p.state),
     curvature |-> DequeExtend(d.curvature, p.curvature),
     masks |-> DequeExtend(d.masks, p.masks),
     action |-> DequeExtend(d.action, p.action)]

Data == [observation |-> observation, state |-> state, curvature |-> curvature,
         masks |-> masks, action |-> action]

\* src.utils.balance.discretize_and_compute_balancing_weights: one weight per
\* action sample, in the same order; a weight is named by the sample it was
\* computed for
discretize_and_compute_balancing_weights(a) == [i \in 1..Len(a) |-> a[i]]

\* dataset.py 215-216
size == Len(observation)

\* mutant: negative indices are rejected
InRange_nonneg(s, i) == 0 <= i /\ i < Len(s)

\* indexing a deque, a list or a tensor: -len <= i < len, else IndexError
InRange(s, i) == 0 - Len(s) <= i /\ i < Len(s)

\* s[i] for an index in range; a negative index counts from the end
At(s, i) == IF i < 0 THEN s[Len(s) + i + 1] ELSE s[i + 1]

\* dataset.py 218-229: the fields are indexed in this order: observation
\* (219), state (224), action (225), instance_weights (226; the attribute
\* does not exist before recompute_weights), curvature (227), masks (228)
getitem(idx) ==
    IF ~InRange(observation, idx) THEN Raised(IndexError)
    ELSE IF ~InRange(state, idx) THEN Raised(IndexError)
    ELSE IF ~InRange(action, idx) THEN Raised(IndexError)
    ELSE IF ~instance_weights.set THEN Raised(AttributeError)
    ELSE IF ~InRange(instance_weights.w, idx) THEN Raised(IndexError)
    ELSE IF ~InRange(curvature, idx) THEN Raised(IndexError)
    ELSE IF ~InRange(masks, idx) THEN Raised(IndexError)
    ELSE Returned([obs |-> At(observation, idx), state |-> At(state, idx),
                   action |-> At(action, idx), weight |-> At(instance_weights.w, idx),
                   curvature |-> At(curvature, idx), masks |-> At(masks, idx)])

----------------------------------------------------------------------------
(* State machine *)

NoCall == [op |-> "none", arg |-> <<>>, status |-> "ok", value |-> <<>>]
NoFrame == [bg |-> <<0, 0, 0>>, fg |-> <<0, 0, 0>>, at |-> <<0, 0>>]

\* dataset.py 174-181: five empty deques; instance_weights is not yet set
Init ==
    /\ observation = <<>> /\ state = <<>> /\ action = <<>>
    /\ curvature = <<>> /\ masks = <<>>
    /\ instance_weights = [set |-> FALSE, w |-> <<>>]
    /\ last = NoCall
    /\ pushed = <<>> /\ wellFormedOnly = TRUE /\ nAppends = 0
    /\ ops = <<>> /\ hist = <<>>
    /\ image = NoFrame /\ features = <<>>

\* dataset.py 183-203
AppendRecord(rec) ==
    /\ nAppends' = nAppends + 1
    /\ LET p == preprocess_input_training(nAppends + 1, rec)
       IN  IF p.status # "ok"
           THEN /\ UNCHANGED <<observation, state, action, curvature, masks,
                               pushed, wellFormedOnly>>
                /\ last' = [op |-> "append", arg |-> rec, status |-> p.status, value |-> <<>>]
           ELSE LET d == Commit(Data, p.value)
                IN  /\ observation' = d.observation
                    /\ state' = d.state
                    /\ curvature' = d.curvature
                    /\ masks' = d.masks
                    /\ action' = d.action
                    /\ pushed' = pushed \o p.value.obs
                    /\ wellFormedOnly' = (wellFormedOnly /\ EqualLengths(rec))
                    /\ last' = [op |-> "append", arg |-> rec, status |-> "ok", value |-> <<>>]
    /\ UNCHANGED <<instance_weights, codecVars, maskVars>>

\* dataset.py 205-210
RecomputeWeights ==
    /\ instance_weights' =
          [set |-> TRUE, w |-> discretize_and_compute_balancing_weights(action)]
    /\ last' = [op |-> "recompute", arg |-> <<>>, status |-> "ok",
                value |-> instance_weights'.w]
    /\ UNCHANGED <<observation, state, action, curvature, masks,
                   pushed, wellFormedOnly, nAppends, codecVars, maskVars>>

\* dataset.py 215-216
CallLen ==
    /\ last' = [op |-> "len", arg |-> <<>>, status |-> "ok", value |-> size]
    /\ UNCHANGED <<observation, state, action, curvature, masks, instance_weights,
                   pushed, wellFormedOnly, nAppends, codecVars, maskVars>>

\* dataset.py 218-229
GetItem(idx) ==
    /\ LET g == getitem(idx)
       IN  last' = [op |-> "get", arg |-> idx, status |-> g.status, value |-> g.value]
    /\ UNCHANGED <<observation, state, action, curvature, masks, instance_weights,
                   pushed, wellFormedOnly, nAppends, codecVars, maskVars>>

Indices == (0 - (Capacity + 1))..(Capacity + 1)

\* a dataset fed records of any shape
Next ==
    \/ \E rec \in Records : nAppends < MaxAppends /\ AppendRecord(rec)
    \/ RecomputeWeights
    \/ CallLen
    \/ \E idx \in Indices : GetItem(idx)

Spec == Init /\ [][Next]_vars

\* a dataset fed records whose series have equal lengths (an action row
\* with throttle and brake may still occur)
NextEqual ==
    \/ \E rec \in EqualRecords : nAppends < MaxEqualAppends /\ AppendRecord(rec)
    \/ RecomputeWeights
    \/ CallLen
    \/ \E idx \in Indices : GetItem(idx)

EqualSpec == Init /\ [][NextEqual]_vars

----------------------------------------------------------------------------
(* The action codec, called on its own *)

LastOf(sq) == sq[Len(sq)]

IsGymBatch(v) == \A i \in 1..Len(v) : Len(v[i]) = 3
IsModelsBatch(v) == \A i \in 1..Len(v) : Len(v[i]) = 2

\* the caller holds a batch of 3-channel or of 2-channel rows
CodecInit ==
    /\ observation = <<>> /\ state = <<>> /\ action = <<>>
    /\ curvature = <<>> /\ masks = <<>>
    /\ instance_weights = [set |-> FALSE, w |-> <<>>]
    /\ last = NoCall
    /\ pushed = <<>> /\ wellFormedOnly = TRUE /\ nAppends = 0
    /\ image = NoFrame /\ features = <<>>
    /\ ops = <<>>
    /\ \E x \in Batches(GymRows, MaxBatch) \cup Batches(ModelRows, MaxBatch) :
          hist = <<Returned(x)>>

\* convert_action_gym_to_models on the value held
CallGymToModels ==
    /\ Len(ops) < MaxChain
    /\ LastOf(hist).status = "ok" /\ IsGymBatch(LastOf(hist).value)
    /\ ops' = Append(ops, "g2m")
    /\ hist' = Append(hist, convert_action_gym_to_models(LastOf(hist).value))
    /\ UNCHANGED <<dsVars, maskVars>>

\* convert_action_models_to_gym on the value held
CallModelsToGym ==
    /\ Len(ops) < MaxChain
    /\ LastOf(hist).status = "ok" /\ IsModelsBatch(LastOf(hist).value)
    /\ ops' = Append(ops, "m2g")
    /\ hist' = Append(hist, Returned(convert_action_models_to_gym(LastOf(hist).value)))
    /\ UNCHANGED <<dsVars, maskVars>>

NextCodec == CallGymToModels \/ CallModelsToGym

CodecSpec == CodecInit /\ [][NextCodec]_vars

----------------------------------------------------------------------------
(* The mask extraction, called on its own *)

\* the caller holds one frame
MaskInit ==
    /\ observation = <<>> /\ state = <<>> /\ action = <<>>
    /\ curvature = <<>> /\ masks = <<>>
    /\ instance_weights = [set |-> FALSE, w |-> <<>>]
    /\ last = NoCall
    /\ pushed = <<>> /\ wellFormedOnly = TRUE /\ nAppends = 0
    /\ ops = <<>> /\ hist = <<>>
    /\ image \in FrameSpecs /\ features = <<>>

\* extract_observation_features(image); the argument is copied (65) and
\* stays as it was
ExtractFeatures ==
    /\ features' = extract_observation_features(Frame(image))
    /\ UNCHANGED <<image, dsVars, codecVars>>

NextMask == ExtractFeatures

MaskSpec == MaskInit /\ [][NextMask]_vars

----------------------------------------------------------------------------
(* Claims *)

Aligned ==
    /\ Len(state) = size /\ Len(action) = size
    /\ Len(curvature) = size /\ Len(masks) = size

\* the last k elements of sq
LastK(sq, k) == SubSeq(sq, Len(sq) - k + 1, Len(sq))

\* C1: in every reachable state the five stored sequences observation,
\* state, action, curvature and masks have the same length, whatever the
\* lengths of the series passed to append.
C1_EqualLengths == Aligned

\* C2: while every completed append was well-formed, with T samples pushed
\* in total the dataset size is min(T, Capacity) and each stored sequence
\* holds exactly the last min(T, Capacity) samples pushed, in arrival order;
\* len() reports that size and get(0) returns the oldest retained sample.
C2_BoundedFifo ==
    wellFormedOnly =>
        LET T == Len(pushed)
            k == Min(T, Capacity)
        IN  /\ size = k
            /\ observation = LastK(pushed, k)
            /\ state = LastK(pushed, k)
            /\ action = LastK(pushed, k)
            /\ curvature = LastK(pushed, k)
            /\ masks = LastK(pushed, k)
            /\ (last.op = "len" => last.value = k)
            /\ (last.op = "get" /\ last.status = "ok" /\ last.arg = 0
                  => last.value.obs = pushed[T - k + 1])

\* C2 witness: one append of Capacity + 2 timesteps (5 for capacity 3), the
\* weights computed, and get(0) returning the record's timestep 2.
C2_Witness ==
    /\ wellFormedOnly /\ nAppends = 1 /\ Len(pushed) = Capacity + 2
    /\ size = Capacity
    /\ last.op = "get" /\ last.status = "ok" /\ last.arg = 0
    /\ last.value.obs = <<1, 2>>

\* C3: append never completes normally on a record whose series do not all
\* have the same number of timesteps.
C3_MismatchRaises ==
    (last.op = "append" /\ ~EqualLengths(last.arg)) => last.status # "ok"

\* C4: an append of a malformed record (mismatched series lengths, or an
\* action row with throttle > 0 and brake > 0) leaves the five stored
\* sequences exactly as they were.
C4_AllOrNothing ==
    [][(nAppends' = nAppends + 1 /\ Malformed(last'.arg))
          => UNCHANGED <<observation, state, action, curvature, masks>>]_vars

C6_StaleWeightsRaise ==
    (/\ last.op = "get" /\ wellFormedOnly
     /\ 0 <= last.arg /\ last.arg < size
     /\ (~instance_weights.set \/ Len(instance_weights.w) # size))
        => last.status \in Errors

\* C7: for every batch x of 2-channel rows,
\* convert_action_gym_to_models(convert_action_models_to_gym(x)) returns x
\* (the intermediate batch always passes the throttle/brake precondition);
\* and for every valid 3-channel batch a, converting a to model space, back
\* to gym space and to model space again gives the first conversion's result.
C7_RoundTrip ==
    /\ \A j \in 1..(Len(ops) - 1) :
          (ops[j] = "m2g" /\ ops[j + 1] = "g2m") => hist[j + 2] = hist[j]
    /\ \A j \in 1..(Len(ops) - 2) :
          (ops[j] = "g2m" /\ ops[j + 1] = "m2g" /\ ops[j + 2] = "g2m")
              => hist[j + 3] = hist[j + 1]

\* C7 witness: a two-row batch with a negative and a zero acceleration went
\* through both conversions.
C7_Witness ==
    /\ Len(ops) = 2 /\ ops[1] = "m2g" /\ ops[2] = "g2m"
    /\ Len(hist[1].value) = 2
    /\ hist[1].value[1][2] < 0 /\ hist[1].value[2][2] = 0
    /\ hist[2].value[1][3] > 0
    /\ hist[3].status = "ok"

\* C8: convert_action_gym_to_models fails for every batch that has a row with
\* throttle > 0 and brake > 0, and for every other batch returns one row
\* (steer, throttle - brake) per input row.
C8_BothPositiveRejected ==
    (Len(ops) >= 1 /\ ops[1] = "g2m") =>
        LET a == hist[1].value
            r == hist[2]
        IN  IF \E i \in 1..Len(a) : Min(a[i][2], a[i][3]) > 0
            THEN r.status = AssertionError
            ELSE /\ r.status = "ok"
                 /\ Len(r.value) = Len(a)
                 /\ \A i \in 1..Len(a) :
                       /\ r.value[i][1] = a[i][1]
                       /\ r.value[i][2] + a[i][3] = a[i][2]

\* C8 witness: a batch whose first row is valid (brake only) and whose second
\* row has throttle and brake was rejected.
C8_Witness ==
    /\ Len(ops) = 1 /\ ops[1] = "g2m" /\ Len(hist[1].value) = 2
    /\ hist[1].value[1][2] = 0 /\ hist[1].value[1][3] > 0
    /\ hist[1].value[2][2] > 0 /\ hist[1].value[2][3] > 0
    /\ hist[2].status = AssertionError

Hud == (y_min..(y_max - 1)) \X (x_min..(x_max - 1))

\* C9 as stated: in the returned mask tensor every pixel of the blanked HUD
\* block has both its marker flag and its drivable-surface flag false.
C9_HudBothFalse ==
    Len(features) = 1 =>
        \A p \in Hud : ~features[1][<<0, p[1], p[2]>>] /\ ~features[1][<<1, p[1], p[2]>>]

\* C9 amended: in the returned mask tensor every pixel of the blanked HUD
\* block (rows 65..79, columns 45..51) has its marker flag false and its
\* drivable-surface flag true.
C9_HudMarkerFalseRoadTrue ==
    Len(features) = 1 =>
        \A p \in Hud : ~features[1][<<0, p[1], p[2]>>] /\ features[1][<<1, p[1], p[2]>>]

\* C9 witness: a frame with marker-red pixels inside the HUD block was
\* processed, and a red pixel just outside the block keeps its marker flag.
C9_Witness ==
    /\ Len(features) = 1
    /\ image.fg = <<255, 0, 0>> /\ image.at = <<y_max - 1, x_max - 1>>
    /\ ~features[1][<<0, y_max - 1, x_max - 1>>]
    /\ features[1][<<0, y_max, x_max>>]

\* C10: while every completed append was well-formed, the five stored
\* sequences have one length and at every position hold values derived from
\* the same timestep of the same record; a sample returned by get is made of
\* values of one timestep.
C10_IndexAligned ==
    wellFormedOnly =>
        /\ Aligned
        /\ \A i \in 1..size :
              /\ state[i] = observation[i] /\ action[i] = observation[i]
              /\ curvature[i] = observation[i] /\ masks[i] = observation[i]
        /\ (last.op = "get" /\ last.status = "ok")
              => /\ last.value.state = last.value.obs
                 /\ last.value.action = last.value.obs
                 /\ last.value.curvature = last.value.obs
                 /\ last.value.masks = last.value.obs

\* C10 witness: two well-formed appends overflowed the capacity, samples of
\* both records are retained, and get returned a sample.
C10_Witness ==
    /\ wellFormedOnly /\ nAppends = 2 /\ Len(pushed) > Capacity
    /\ size = Capacity /\ observation[1][1] = 1 /\ observation[size][1] = 2
    /\ last.op = "get" /\ last.status = "ok"

====
